---------------------------- MODULE Spec2Model ----------------------------
(***************************************************************************)
(* A model of the Poliedro scripts of Yudi/scripts:                        *)
(*   Batch download/zoom_downloader.py   (prefix zd_)                      *)
(*   Batch download/check_downloads.py   (prefix cd_)                      *)
(*   Batch rename/batch_rename.py        (prefix br_)                      *)
(* A Python str is a sequence of one-character strings.                    *)
(***************************************************************************)
EXTENDS Integers, Sequences, FiniteSets, TLC

VARIABLES
  \* ---- file-name derivation (pure functions applied to one CSV row)
  nm_pc,        \* "input" | "built"
  nm_row,       \* the CSV data row: a sequence of 7 raw fields
  nm_year,      \* the year dateparser resolves a year-less date to
  nm_side,      \* the side tag handed to build_filename
  nm_out,       \* the results of the functions applied to the row
  \* ---- check_downloads.py
  cd_pc,        \* "load" | "scan" | "classify" | "orphans" | "report" | "done"
  cd_rows,      \* the CSV data rows
  cd_year,      \* the year dateparser resolves a year-less date to
  cd_dir,       \* the names of the files of OUTPUT_DIR
  cd_entries,   \* entries of load_csv_entries (list of dicts)
  cd_todo,      \* files glob has not yielded yet
  cd_files_by_base, \* dict: base -> list of file names
  cd_base_order,    \* insertion order of the dict's keys
  cd_i,         \* position of the entry loop / of the orphan loop
  cd_complete, cd_missing_pair, cd_missing_all, cd_expected_bases,
  cd_orphan_files,
  cd_reports,   \* the report tables of OUTPUT_DIR: file name -> rows
  \* ---- batch_rename.py
  br_pc,        \* "count" | "read" | "check" | "rename" | "done" | "raised"
  br_lines,     \* the CSV data lines, each a sequence of fields
  br_dir0,      \* the directory when the run starts: name -> content
  br_dir,       \* the directory now: name -> content
  br_num_files, br_data, br_list, br_k, br_i, br_side, br_isEven,
  br_error,     \* why the run raised
  br_log,       \* history: one record per os.rename performed
  \* ---- zoom_downloader.py
  zd_pc,        \* "idle" | "loop" | "page" | "streams" | "ended" (a run of
                \* main has returned; the next may start)
  zd_recordings,\* recordings loaded from the CSV
  zd_disk,      \* OUTPUT_DIR: file name -> size in bytes (absent: no entry)
  zd_good,      \* history: the files a download that reported success wrote
  zd_i,         \* index of the recording being processed
  zd_successful, zd_partial, zd_failed, zd_skipped,
  zd_result,    \* the result dict of the running process_recording
  zd_video_urls,\* stream types captured and not yet iterated
  zd_order,     \* history: indices handed to process_recording, in order
  zd_call,      \* history: the last return of download_with_curl
  zd_accepted,  \* history: files the last step accepted as already downloaded
  zd_reports,   \* the tables this run of main has saved in OUTPUT_DIR (names)
  \* ---- check_files.py
  cf_pc,        \* "start" | "reading" | "bucket" | "check" | "done" | "raised"
  cf_lines,     \* the CSV data lines (after the header)
  cf_dir0,      \* history: the input directory as the first run found it
  cf_dir,       \* the names of the files of the input directory
  cf_copy_exists, \* whether <dir>_copy exists
  cf_copy,      \* the files of <dir>_copy: <<sub-directory or <<>>, name>>
  cf_k,         \* position of the CSV loop
  cf_parsedDataset, \* dict: frente -> list of RowData
  cf_todo,      \* file names the glob loop has not handled yet
  cf_error      \* why the run raised

nmVars == <<nm_pc, nm_row, nm_year, nm_side, nm_out>>
cdVars == <<cd_pc, cd_rows, cd_year, cd_dir, cd_entries, cd_todo, cd_files_by_base,
            cd_base_order, cd_i, cd_complete, cd_missing_pair,
            cd_missing_all, cd_expected_bases, cd_orphan_files, cd_reports>>
brVars == <<br_pc, br_lines, br_dir0, br_dir, br_num_files, br_data, br_list,
            br_k, br_i, br_side, br_isEven, br_error, br_log>>
zdVars == <<zd_pc, zd_recordings, zd_disk, zd_good, zd_i,
            zd_successful, zd_partial, zd_failed, zd_skipped, zd_result,
            zd_video_urls, zd_order, zd_call, zd_accepted, zd_reports>>
cfVars == <<cf_pc, cf_lines, cf_dir0, cf_dir, cf_copy_exists, cf_copy, cf_k,
            cf_parsedDataset, cf_todo, cf_error>>
vars == <<nmVars, cdVars, brVars, zdVars, cfVars>>

None == "None"

-----------------------------------------------------------------------------
(* Python str and list primitives                                          *)

SetMin(S) == CHOOSE x \in S : \A y \in S : x <= y
SetMax(S) == CHOOSE x \in S : \A y \in S : y <= x

\* s[:n]
Take(s, n) == IF Len(s) > n THEN SubSeq(s, 1, n) ELSE s

\* s[:-n] for n > 0
DropLast(s, n) == IF Len(s) > n THEN SubSeq(s, 1, Len(s) - n) ELSE <<>>

\* s.endswith(t)
EndsWith(s, t) ==
  /\ Len(s) >= Len(t)
  /\ SubSeq(s, Len(s) - Len(t) + 1, Len(s)) = t

\* s.strip(chars)
StrStrip(s, chars) ==
  LET keep == {i \in 1..Len(s) : s[i] \notin chars}
  IN  IF keep = {} THEN <<>> ELSE SubSeq(s, SetMin(keep), SetMax(keep))

\* str.strip() with no argument strips whitespace
Whitespace == {" ", "\t", "\n", "\r"}

\* index of the first occurrence of t in s from position p on, 0 if none
Find(s, t, p) ==
  LET hits == {i \in p..(Len(s) - Len(t) + 1) : SubSeq(s, i, i + Len(t) - 1) = t}
  IN  IF hits = {} THEN 0 ELSE SetMin(hits)

\* s.replace(old, new): every non-overlapping occurrence, left to right
RECURSIVE ReplaceFrom(_, _, _, _)
ReplaceFrom(s, old, new, p) ==
  LET at == Find(s, old, p)
  IN  IF at = 0 THEN SubSeq(s, p, Len(s))
      ELSE SubSeq(s, p, at - 1) \o new \o ReplaceFrom(s, old, new, at + Len(old))
StrReplace(s, old, new) == ReplaceFrom(s, old, new, 1)

\* s.rsplit('_', 1)[0]
RSplitFirst(s, c) ==
  LET at == {i \in 1..Len(s) : s[i] = c}
  IN  IF at = {} THEN s ELSE SubSeq(s, 1, SetMax(at) - 1)

\* n copies of character c
Rep(c, n) == [i \in 1..n |-> c]

Digits == <<"0", "1", "2", "3", "4", "5", "6", "7", "8", "9">>
Digit(n) == Digits[n + 1]
\* strftime's zero-padded %m, %d and %Y
Fmt2(n) == <<Digit((n \div 10) % 10), Digit(n % 10)>>
Fmt4(n) == <<Digit((n \div 1000) % 10), Digit((n \div 100) % 10)>> \o Fmt2(n)

Sep == <<" ", "-", " ">>
Mp4 == <<".", "m", "p", "4">>

-----------------------------------------------------------------------------
(* Sanitizing and the two file-name derivations                            *)

MaxNameLen == 200
InvalidChars == {"<", ">", ":", "\"", "/", "\\", "|", "?", "*"}

\* re.sub(r'[<>:"/\\|?*]', '_', name)
ReSubInvalid(name) ==
  [i \in 1..Len(name) |-> IF name[i] \in InvalidChars THEN "_" ELSE name[i]]

\* a sanitize_filename that forgets the length cut
zd_sanitize_filename_nocut(name) == StrStrip(ReSubInvalid(name), {".", " "})

zd_sanitize_filename(name) ==
  LET sanitized == StrStrip(ReSubInvalid(name), {".", " "})
  IN  IF Len(sanitized) > MaxNameLen THEN Take(sanitized, MaxNameLen)
      ELSE sanitized

cd_sanitize_filename(name) ==
  LET sanitized == StrStrip(ReSubInvalid(name), {".", " "})
  IN  IF Len(sanitized) > MaxNameLen THEN Take(sanitized, MaxNameLen)
      ELSE sanitized

\* The date strings of the model and what dateparser.parse(s, languages=['pt'])
\* makes of them; year is the year it gives a date that names none.
DateFev  == <<"1", "0", "/", "f", "e", "v">>
DateFull == <<"1", "/", "3", "/", "2", "4">>
DateBad  == <<"?">>
DateStrs == {DateFev, DateFull, DateBad}
DateparserParse(s, year) ==
  CASE s = DateFev  -> [ok |-> TRUE, y |-> year, m |-> 2, d |-> 10]
    [] s = DateFull -> [ok |-> TRUE, y |-> 2024, m |-> 3, d |-> 1]
    [] OTHER        -> [ok |-> FALSE, y |-> 0, m |-> 0, d |-> 0]

\* strftime('2025-%m-%d')
zd_parse_portuguese_date(date_str, year) ==
  LET parsed == DateparserParse(date_str, year)
  IN  IF parsed.ok
      THEN <<"2", "0", "2", "5", "-">> \o Fmt2(parsed.m) \o <<"-">> \o Fmt2(parsed.d)
      ELSE date_str

\* strftime('%Y-%m-%d')
cd_parse_date(date_str, year) ==
  LET parsed == DateparserParse(date_str, year)
  IN  IF parsed.ok
      THEN Fmt4(parsed.y) \o <<"-">> \o Fmt2(parsed.m) \o <<"-">> \o Fmt2(parsed.d)
      ELSE date_str

Strip(s) == StrStrip(s, Whitespace)

\* One data row of load_recordings_from_csv: columns by position.
zd_accepts(row) == Len(row) >= 7 /\ Strip(row[7]) # <<>>
zd_recording(row, year) ==
  [disciplina |-> Strip(row[1]),
   semestre   |-> Strip(row[2]),
   date       |-> zd_parse_portuguese_date(Strip(row[3]), year),
   professor  |-> Strip(row[4]),
   frente     |-> Strip(row[5]),
   title      |-> Strip(row[6]),
   url        |-> Strip(row[7])]

zd_build_filename(info, side) ==
  LET name == info.semestre \o Sep \o info.disciplina \o Sep \o info.frente
              \o Sep \o info.date \o Sep \o info.title \o Sep \o side \o Mp4
  IN  zd_sanitize_filename(StrReplace(name, Mp4, <<>>)) \o Mp4

cd_build_filename_base(row, year) ==
  LET date_formatted == cd_parse_date(row.data, year)
      title == row.conteudo
      name == row.semestre \o Sep \o row.disciplina \o Sep \o row.frente
              \o Sep \o date_formatted \o Sep \o title
  IN  cd_sanitize_filename(name)

\* One data row of load_csv_entries under the header
\* Disciplina;Semestre;Data;Professor;Frente;Conteúdo / Link da aula;Link
cd_accepts(row) == Strip(row[7]) # <<>>
cd_entry(row, year) ==
  LET entry == [disciplina |-> Strip(row[1]),
                semestre   |-> Strip(row[2]),
                data       |-> Strip(row[3]),
                professor  |-> Strip(row[4]),
                frente     |-> Strip(row[5]),
                conteudo   |-> Strip(row[6]),
                url        |-> Strip(row[7])]
  IN  [disciplina |-> entry.disciplina, semestre |-> entry.semestre,
       data |-> entry.data, professor |-> entry.professor,
       frente |-> entry.frente, conteudo |-> entry.conteudo,
       url |-> entry.url,
       filename_base |-> cd_build_filename_base(entry, year)]

\* pathlib's Path(name).stem for a name glob("*.mp4") yields
PathStem(name) == IF Len(name) > Len(Mp4) THEN DropLast(name, Len(Mp4)) ELSE name

Esq == <<"e", "s", "q">>
Dir == <<"d", "i", "r">>
\* the base key scan_download_files files a name under
cd_scan_base(file) ==
  LET name == PathStem(file)
  IN  IF EndsWith(name, Sep \o Esq) \/ EndsWith(name, Sep \o Dir)
        THEN DropLast(name, 6)
      ELSE IF EndsWith(name, <<"_">> \o Esq) \/ EndsWith(name, <<"_">> \o Dir)
        THEN DropLast(name, 4)
      ELSE IF EndsWith(name, <<"_", "s", "c", "r", "e", "e", "n">>)
              \/ EndsWith(name, <<"_", "c", "a", "m", "e", "r", "a">>)
        THEN RSplitFirst(name, "_")
      ELSE name

-----------------------------------------------------------------------------
(* The state of a script that is not running                               *)

NmIdle ==
  /\ nm_pc = "off" /\ nm_row = <<>> /\ nm_year = 0 /\ nm_side = <<>>
  /\ nm_out = <<>>
CdIdle ==
  /\ cd_pc = "off" /\ cd_rows = <<>> /\ cd_year = 0 /\ cd_dir = {} /\ cd_entries = <<>>
  /\ cd_todo = {} /\ cd_files_by_base = <<>> /\ cd_base_order = <<>>
  /\ cd_i = 0 /\ cd_complete = <<>> /\ cd_missing_pair = <<>>
  /\ cd_missing_all = <<>> /\ cd_expected_bases = {} /\ cd_orphan_files = <<>>
  /\ cd_reports = <<>>
BrIdle ==
  /\ br_pc = "off" /\ br_lines = <<>> /\ br_dir0 = <<>> /\ br_dir = <<>>
  /\ br_num_files = 0 /\ br_data = <<>> /\ br_list = <<>> /\ br_k = 0
  /\ br_i = 0 /\ br_side = <<>> /\ br_isEven = FALSE /\ br_error = <<>>
  /\ br_log = <<>>
ZdIdle ==
  /\ zd_pc = "off" /\ zd_recordings = <<>> /\ zd_disk = <<>> /\ zd_good = {}
  /\ zd_i = 0 /\ zd_successful = <<>> /\ zd_partial = <<>>
  /\ zd_failed = <<>> /\ zd_skipped = <<>> /\ zd_result = <<>>
  /\ zd_video_urls = {} /\ zd_order = <<>> /\ zd_call = <<>>
  /\ zd_accepted = {} /\ zd_reports = {}
CfIdle ==
  /\ cf_pc = "off" /\ cf_lines = <<>> /\ cf_dir0 = {} /\ cf_dir = {}
  /\ cf_copy_exists = FALSE /\ cf_copy = {} /\ cf_k = 0
  /\ cf_parsedDataset = <<>> /\ cf_todo = {} /\ cf_error = "none"

-----------------------------------------------------------------------------
(* NameSpec: the two scripts derive their file names from the same row     *)

\* how far past MaxNameLen the longest title of the model reaches
MaxOver == 2
Years == {2024, 2025, 2026}

TitleLens == {MaxNameLen - 32, MaxNameLen - 31, MaxNameLen - 25,
              MaxNameLen - 24, MaxNameLen + MaxOver}
Titles ==
  {<<"x">>, <<"x", ".">>, <<"a", ":", "b">>, <<>>, <<" ", "x", " ">>,
   <<"x", ".", "m", "p", "4">>, <<"x", "_", "e", "s", "q">>}
  \cup {Rep("a", n) : n \in TitleLens}
  \cup {<<"*">> \o Rep("a", MaxNameLen + MaxOver)}
NmRows ==
  {<<disc, <<"1">>, date, <<"p">>, <<"A">>, title, link>> :
     disc \in {<<"M">>, <<"M", "/">>}, date \in DateStrs,
     title \in Titles, link \in {<<"u">>, <<" ">>}}

NmInit ==
  /\ nm_pc = "input"
  /\ nm_row \in NmRows
  /\ nm_year \in Years
  /\ nm_side \in {Esq, Dir}
  /\ nm_out = <<>>
  /\ CdIdle /\ BrIdle /\ ZdIdle /\ CfIdle

\* The downloader and the reconciler each load the row and derive its name.
NmBuild ==
  /\ nm_pc = "input"
  /\ nm_pc' = "built"
  /\ nm_out' =
       [zd_loaded |-> zd_accepts(nm_row),
        cd_loaded |-> cd_accepts(nm_row),
        zd_name   |-> zd_build_filename(zd_recording(nm_row, nm_year), nm_side),
        zd_esq    |-> zd_build_filename(zd_recording(nm_row, nm_year), Esq),
        zd_dir    |-> zd_build_filename(zd_recording(nm_row, nm_year), Dir),
        cd_base   |-> cd_entry(nm_row, nm_year).filename_base,
        san_in    |-> nm_row[6],
        zd_san    |-> zd_sanitize_filename(nm_row[6]),
        cd_san    |-> cd_sanitize_filename(nm_row[6])]
  /\ UNCHANGED <<nm_row, nm_year, nm_side, cdVars, brVars, zdVars, cfVars>>

NmNext == NmBuild
NameSpec == NmInit /\ [][NmNext]_vars

HasInvalid(s) == \E i \in 1..Len(s) : s[i] \in InvalidChars

\* C3: for every row with a link and each side, the key scan_download_files
\* recovers from the downloader's file name is the key build_filename_base
\* derives for the row.
C3_NamesAgree ==
  (nm_pc = "built" /\ nm_out.zd_loaded /\ nm_out.cd_loaded)
    => cd_scan_base(nm_out.zd_name) = nm_out.cd_base

\* C4: sanitize_filename (either copy) returns a string without any of
\* < > : " / \ | ? * and of length at most 200.
C4_Sanitized ==
  nm_pc = "built" =>
    \A s \in {nm_out.zd_san, nm_out.cd_san, nm_out.cd_base,
              PathStem(nm_out.zd_name)} :
      ~HasInvalid(s) /\ Len(s) <= MaxNameLen

\* C4's case: an input with a disallowed character and more than 200
\* characters has been sanitized.
C4_Witness ==
  /\ nm_pc = "built"
  /\ HasInvalid(nm_out.san_in)
  /\ Len(nm_out.san_in) > MaxNameLen
  /\ Len(nm_out.zd_san) = MaxNameLen

\* C16: for every recording the downloader loads, of any field lengths,
\* build_filename(recording, 'esq') and build_filename(recording, 'dir') are
\* two different names.
C16_SidesDiffer ==
  (nm_pc = "built" /\ nm_out.zd_loaded) => nm_out.zd_esq # nm_out.zd_dir

-----------------------------------------------------------------------------
(* CheckSpec: check_downloads.py                                           *)

MaxCdRows == 2
MaxCdFiles == 3

Range(f) == {f[x] : x \in DOMAIN f}
SeqsUpTo(S, n) == UNION {[1..k -> S] : k \in 0..n}
Count(seq, x) == Cardinality({k \in DOMAIN seq : seq[k] = x})

CdRow(title, link) ==
  <<<<"M">>, <<"1">>, DateFev, <<"p">>, <<"A">>, title, link>>
\* two rows of one key ("x." is sanitized to "x"), one of another key, and
\* one without a link
CdRowSet == {CdRow(<<"x">>, <<"u">>), CdRow(<<"x", ".">>, <<"v">>),
             CdRow(<<"y">>, <<"u">>), CdRow(<<"x">>, <<>>)}
CdBase(title, year) == cd_entry(CdRow(title, <<"u">>), year).filename_base
CdFileSet(year) ==
  {CdBase(<<"x">>, year) \o Sep \o Esq \o Mp4,
   CdBase(<<"x">>, year) \o Sep \o Dir \o Mp4,
   CdBase(<<"x">>, year) \o <<"_", "s", "c", "r", "e", "e", "n">> \o Mp4,
   CdBase(<<"y">>, year) \o <<"_">> \o Esq \o Mp4,
   <<"z">> \o Sep \o Esq \o Mp4,
   <<"z", "_", "c", "a", "m", "e", "r", "a">> \o Mp4,
   <<"n", ".", "c", "s", "v">>}

\* OUTPUT_DIR.glob("*.mp4")
cd_glob_mp4(dir) == {f \in dir : EndsWith(f, Mp4)}

CdInit ==
  /\ cd_pc = "load"
  /\ cd_rows \in SeqsUpTo(CdRowSet, MaxCdRows)
  /\ cd_year \in Years
  /\ cd_dir \in {d \in SUBSET CdFileSet(cd_year) : Cardinality(d) <= MaxCdFiles}
  /\ cd_entries = <<>> /\ cd_todo = {} /\ cd_files_by_base = <<>>
  /\ cd_base_order = <<>> /\ cd_i = 0 /\ cd_complete = <<>>
  /\ cd_missing_pair = <<>> /\ cd_missing_all = <<>>
  /\ cd_expected_bases = {} /\ cd_orphan_files = <<>>
  /\ cd_reports = <<>>
  /\ NmIdle /\ BrIdle /\ ZdIdle /\ CfIdle

\* load_csv_entries: the rows with a link, in order, each with its key
RECURSIVE cd_load_csv_entries(_, _)
cd_load_csv_entries(rows, year) ==
  IF rows = <<>> THEN <<>>
  ELSE (IF cd_accepts(Head(rows)) THEN <<cd_entry(Head(rows), year)>> ELSE <<>>)
       \o cd_load_csv_entries(Tail(rows), year)

\* entries = load_csv_entries(); scan_download_files starts its glob
CdLoad ==
  /\ cd_pc = "load"
  /\ cd_entries' = cd_load_csv_entries(cd_rows, cd_year)
  /\ cd_todo' = cd_glob_mp4(cd_dir)
  /\ cd_files_by_base' = <<>>
  /\ cd_base_order' = <<>>
  /\ cd_pc' = "scan"
  /\ UNCHANGED <<cfVars, nmVars, brVars, zdVars, cd_rows, cd_year, cd_dir, cd_reports, cd_i, cd_complete, cd_missing_pair,
                 cd_missing_all, cd_expected_bases, cd_orphan_files>>

\* defaultdict(list): files_by_base[base].append(file)
DictAppend(d, order, key, x) ==
  IF key \in DOMAIN d THEN [d EXCEPT ![key] = Append(@, x)]
  ELSE (key :> <<x>>) @@ d
\* files_by_base.get(base, [])
DictGet(d, key) == IF key \in DOMAIN d THEN d[key] ELSE <<>>

\* one iteration of scan_download_files' loop; glob yields in any order
CdScanFile ==
  /\ cd_pc = "scan"
  /\ \E file \in cd_todo :
       LET base == cd_scan_base(file)
       IN  /\ cd_files_by_base' = DictAppend(cd_files_by_base, cd_base_order, base, file)
           /\ cd_base_order' = IF base \in DOMAIN cd_files_by_base THEN cd_base_order
                               ELSE Append(cd_base_order, base)
           /\ cd_todo' = cd_todo \ {file}
  /\ UNCHANGED <<cfVars, nmVars, brVars, zdVars, cd_pc, cd_rows, cd_year, cd_dir, cd_reports, cd_entries, cd_i, cd_complete,
                 cd_missing_pair, cd_missing_all, cd_expected_bases,
                 cd_orphan_files>>

\* the scan returns; the result lists are created
CdScanDone ==
  /\ cd_pc = "scan" /\ cd_todo = {}
  /\ cd_pc' = "classify"
  /\ cd_i' = 1
  /\ cd_missing_all' = <<>> /\ cd_missing_pair' = <<>> /\ cd_complete' = <<>>
  /\ cd_expected_bases' = {}
  /\ UNCHANGED <<cfVars, nmVars, brVars, zdVars, cd_rows, cd_year, cd_dir, cd_reports, cd_entries, cd_todo,
                 cd_files_by_base, cd_base_order, cd_orphan_files>>

\* a classification that takes two files for a pair still missing
cd_classify_offbyone(n) ==
  IF n = 0 THEN "missing_all" ELSE IF n <= 2 THEN "missing_pair" ELSE "complete"

\* the list an entry with n files under its key goes to
cd_classify(n) ==
  IF n = 0 THEN "missing_all" ELSE IF n = 1 THEN "missing_pair" ELSE "complete"

\* one iteration of "for entry in entries"
CdClassifyEntry ==
  /\ cd_pc = "classify" /\ cd_i <= Len(cd_entries)
  /\ LET entry == cd_entries[cd_i]
         base == entry.filename_base
         files == DictGet(cd_files_by_base, base)
         list == cd_classify(Len(files))
     IN  /\ cd_expected_bases' = cd_expected_bases \cup {base}
         /\ cd_missing_all' = IF list = "missing_all"
                              THEN Append(cd_missing_all, entry) ELSE cd_missing_all
         /\ cd_missing_pair' = IF list = "missing_pair"
                               THEN Append(cd_missing_pair,
                                           ("existing_file" :> files[1]) @@ entry)
                               ELSE cd_missing_pair
         /\ cd_complete' = IF list = "complete"
                           THEN Append(cd_complete, entry) ELSE cd_complete
  /\ cd_i' = cd_i + 1
  /\ UNCHANGED <<cfVars, nmVars, brVars, zdVars, cd_pc, cd_rows, cd_year, cd_dir, cd_reports, cd_entries, cd_todo,
                 cd_files_by_base, cd_base_order, cd_orphan_files>>

CdClassifyDone ==
  /\ cd_pc = "classify" /\ cd_i > Len(cd_entries)
  /\ cd_pc' = "orphans"
  /\ cd_i' = 1
  /\ cd_orphan_files' = <<>>
  /\ UNCHANGED <<cfVars, nmVars, brVars, zdVars, cd_rows, cd_year, cd_dir, cd_reports, cd_entries, cd_todo,
                 cd_files_by_base, cd_base_order, cd_complete,
                 cd_missing_pair, cd_missing_all, cd_expected_bases>>

\* an orphan step that reports one file per orphan group
cd_orphans_of_first(base, files, expected) ==
  IF base \notin expected THEN Take(files, 1) ELSE <<>>

\* what one group of files_by_base adds to orphan_files
cd_orphans_of(base, files, expected) ==
  IF base \notin expected THEN files ELSE <<>>

\* one iteration of "for base, files in files_by_base.items()"
CdOrphanGroup ==
  /\ cd_pc = "orphans" /\ cd_i <= Len(cd_base_order)
  /\ LET base == cd_base_order[cd_i]
     IN  cd_orphan_files' = cd_orphan_files
            \o cd_orphans_of(base, cd_files_by_base[base], cd_expected_bases)
  /\ cd_i' = cd_i + 1
  /\ UNCHANGED <<cfVars, nmVars, brVars, zdVars, cd_pc, cd_rows, cd_year, cd_dir, cd_reports, cd_entries, cd_todo,
                 cd_files_by_base, cd_base_order, cd_complete,
                 cd_missing_pair, cd_missing_all, cd_expected_bases>>

CdOrphansDone ==
  /\ cd_pc = "orphans" /\ cd_i > Len(cd_base_order)
  /\ cd_pc' = "report"
  /\ UNCHANGED <<cfVars, nmVars, brVars, zdVars, cd_rows, cd_year, cd_dir, cd_reports, cd_entries, cd_todo,
                 cd_files_by_base, cd_base_order, cd_i, cd_complete,
                 cd_missing_pair, cd_missing_all, cd_expected_bases,
                 cd_orphan_files>>

\* the characters of the model's file names, by ascending code point
OrdChars == <<" ", "-", ".", "/", "0", "1", "2", "3", "4", "5", "6", "7",
              "8", "9", ":", "?", "A", "M", "_", "a", "b", "c", "d", "e",
              "f", "h", "i", "m", "n", "p", "q", "r", "s", "v", "x", "y", "z">>
Ord(c) == CHOOSE k \in DOMAIN OrdChars : OrdChars[k] = c

\* a < b for Python str
StrLess(a, b) ==
  LET diff == {k \in 1..(IF Len(a) < Len(b) THEN Len(a) ELSE Len(b)) : a[k] # b[k]}
  IN  IF diff = {} THEN Len(a) < Len(b)
      ELSE Ord(a[SetMin(diff)]) < Ord(b[SetMin(diff)])

\* sorted(S) for a set of str
RECURSIVE Sorted(_)
Sorted(S) ==
  IF S = {} THEN <<>>
  ELSE LET least == CHOOSE x \in S : \A y \in S \ {x} : StrLess(x, y)
       IN  <<least>> \o Sorted(S \ {least})

\* the files of the three report tables
MissingCsv == "check_missing_all.csv"
PairCsv == "check_missing_pair.csv"
OrphanCsv == "check_orphan_files.csv"
ReportNames == {MissingCsv, PairCsv, OrphanCsv}

\* the data rows csv.writer writes for the entries of missing_all
cd_missing_rows(missing_all) ==
  [k \in DOMAIN missing_all |->
     LET entry == missing_all[k]
     IN  <<entry.disciplina, entry.semestre, entry.data, entry.professor,
           entry.frente, entry.conteudo, entry.url, entry.filename_base>>]
\* the data rows written for the entries of missing_pair
cd_pair_rows(missing_pair) ==
  [k \in DOMAIN missing_pair |->
     LET entry == missing_pair[k]
     IN  <<entry.disciplina, entry.semestre, entry.data, entry.professor,
           entry.frente, entry.conteudo, entry.url, entry.filename_base,
           entry.existing_file>>]
\* the data rows written for sorted(orphan_files): the file names (the size
\* column is left out, the model keeps no file sizes)
cd_orphan_rows(orphan_files) ==
  LET names == Sorted(Range(orphan_files))
  IN  [k \in DOMAIN names |-> <<names[k]>>]

\* a save that also removes the table of an empty list
cd_save_report_or_remove(reports, name, rows) ==
  IF rows # <<>> THEN (name :> rows) @@ reports
  ELSE [n \in DOMAIN reports \ {name} |-> reports[n]]

\* "if <list>: with open(<name>, 'w') ...": the table is written (created or
\* overwritten) when the list is not empty, and left alone otherwise
cd_save_report(reports, name, rows) ==
  IF rows # <<>> THEN (name :> rows) @@ reports ELSE reports

\* check_downloads after the orphan loop: the summary is printed and the
\* reports are saved
CdReport ==
  /\ cd_pc = "report"
  /\ cd_reports' =
       cd_save_report(
         cd_save_report(
           cd_save_report(cd_reports, MissingCsv, cd_missing_rows(cd_missing_all)),
           PairCsv, cd_pair_rows(cd_missing_pair)),
         OrphanCsv, cd_orphan_rows(cd_orphan_files))
  /\ cd_pc' = "done"
  /\ UNCHANGED <<cfVars, nmVars, brVars, zdVars, cd_rows, cd_year, cd_dir, cd_entries,
                 cd_todo, cd_files_by_base, cd_base_order, cd_i, cd_complete,
                 cd_missing_pair, cd_missing_all, cd_expected_bases,
                 cd_orphan_files>>

CdNext ==
  \/ CdLoad \/ CdScanFile \/ CdScanDone \/ CdClassifyEntry
  \/ CdClassifyDone \/ CdOrphanGroup \/ CdOrphansDone \/ CdReport
CheckSpec == CdInit /\ [][CdNext]_vars

\* the entries the loop of check_downloads has handled so far
CdProcessed ==
  IF cd_pc = "classify" THEN SubSeq(cd_entries, 1, cd_i - 1)
  ELSE IF cd_pc \in {"orphans", "report", "done"} THEN cd_entries
  ELSE <<>>
\* the number of mp4 files of the directory whose base key is base
CdNFiles(base) ==
  Cardinality({f \in cd_dir : EndsWith(f, Mp4) /\ cd_scan_base(f) = base})
\* the entry a record of missing_pair was made from
CdEntryOf(rec) == [k \in DOMAIN rec \ {"existing_file"} |-> rec[k]]
CdPairCount(e) ==
  Cardinality({k \in DOMAIN cd_missing_pair : CdEntryOf(cd_missing_pair[k]) = e})

\* C1: every entry handled is in exactly one of complete / missing_pair /
\* missing_all, the one its number of files says (0: missing_all, 1:
\* missing_pair with that file as existing_file, 2 or more: complete), and
\* the three lengths sum to the number of entries handled.
C1_Partition ==
  cd_pc \in {"classify", "orphans", "report", "done"} =>
    /\ Len(cd_complete) + Len(cd_missing_pair) + Len(cd_missing_all)
         = Len(CdProcessed)
    /\ \A e \in Range(CdProcessed) :
         LET n == CdNFiles(e.filename_base)
             c == Count(CdProcessed, e)
         IN  /\ Count(cd_missing_all, e) = (IF n = 0 THEN c ELSE 0)
             /\ CdPairCount(e) = (IF n = 1 THEN c ELSE 0)
             /\ Count(cd_complete, e) = (IF n >= 2 THEN c ELSE 0)
    /\ \A k \in DOMAIN cd_missing_pair :
         /\ cd_missing_pair[k].existing_file \in cd_dir
         /\ cd_scan_base(cd_missing_pair[k].existing_file)
              = cd_missing_pair[k].filename_base

\* C1's case: a run has ended with an entry that has two files and an entry
\* that has one.
C1_Witness ==
  /\ cd_pc = "done"
  /\ Len(cd_complete) > 0
  /\ Len(cd_missing_pair) > 0

\* C2: when the run ends, an mp4 file of the directory is in orphan_files
\* exactly once if its base key is no entry's filename_base, and not at all
\* otherwise; nothing else is in the list.
C2_Orphans ==
  cd_pc = "done" =>
    /\ \A f \in cd_dir :
         Count(cd_orphan_files, f) =
           (IF /\ EndsWith(f, Mp4)
               /\ cd_scan_base(f) \notin {e.filename_base : e \in Range(cd_entries)}
            THEN 1 ELSE 0)
    /\ Range(cd_orphan_files) \subseteq cd_dir

\* C2's case: two orphan files share a base key, and another file of the
\* directory belongs to an entry.
C2_Witness ==
  /\ cd_pc = "done"
  /\ \E f, g \in Range(cd_orphan_files) :
       f # g /\ cd_scan_base(f) = cd_scan_base(g)
  /\ \E f \in cd_glob_mp4(cd_dir) : f \notin Range(cd_orphan_files)

-----------------------------------------------------------------------------
(* RenameSpec: batch_rename.py                                             *)

MaxBrRows == 2
MaxBrFiles == 5

\* glob.glob(f"{absolutedirectory}/[!.]*.mp4") over the names of a directory
br_glob(dir) ==
  {n \in DOMAIN dir : Len(n) >= 5 /\ n[1] # "." /\ EndsWith(n, Mp4)}

\* os.rename(src, dst) where dst is no directory: dst is replaced
OsRename(dir, src, dst) ==
  IF src = dst THEN dir
  ELSE [n \in (DOMAIN dir \ {src}) \cup {dst} |->
          IF n = dst THEN dir[src] ELSE dir[n]]

\* the RowData of a CSV line of at least 5 fields
br_row(line) ==
  LET tempDate == DateparserParse(line[1], 0)
  IN  [date |-> IF ~tempDate.ok THEN line[1]
                ELSE Fmt2(tempDate.m) \o <<"-">> \o Fmt2(tempDate.d),
       disciplina |-> line[3],
       frente |-> line[4],
       conteudo |-> StrReplace(StrReplace(line[5], <<"/">>, <<"-">>),
                               <<":">>, <<" ", "-">>)]

br_new_name(info, side) ==
  info.disciplina \o Sep \o info.frente \o Sep \o info.date \o Sep
    \o info.conteudo \o Sep \o side \o Mp4

BrLine(date, conteudo) == <<date, <<"1">>, <<"M">>, <<"A">>, conteudo>>
BrLineSet ==
  {BrLine(DateFev, <<"x">>), BrLine(DateFev, <<"y", "/", "z", ":">>),
   BrLine(DateBad, <<"x">>), <<DateFev, <<"1">>, <<"M">>, <<"A">>>>, <<>>}
BrFileSet ==
  {<<"a">> \o Mp4, <<"b">> \o Mp4, <<"c">> \o Mp4, <<"d">> \o Mp4,
   <<"e">> \o Mp4, <<".", "h">> \o Mp4,
   br_new_name(br_row(BrLine(DateFev, <<"x">>)), Esq)}

BrInit ==
  /\ br_pc = "count"
  /\ br_lines \in SeqsUpTo(BrLineSet, MaxBrRows)
  /\ \E names \in SUBSET BrFileSet :
       /\ Cardinality(names) <= MaxBrFiles
       /\ br_dir0 = [n \in names |-> n]
  /\ br_dir = br_dir0
  /\ br_num_files = 0 /\ br_data = <<>> /\ br_list = <<>> /\ br_k = 0
  /\ br_i = 0 /\ br_side = <<>> /\ br_isEven = FALSE /\ br_error = <<>>
  /\ br_log = <<>>
  /\ NmIdle /\ CdIdle /\ ZdIdle /\ CfIdle

\* num_files = len(glob.glob(...)); the CSV is opened and its header skipped
BrCount ==
  /\ br_pc = "count"
  /\ br_num_files' = Cardinality(br_glob(br_dir))
  /\ br_data' = <<>>
  /\ br_pc' = "read"
  /\ UNCHANGED <<cfVars, nmVars, cdVars, zdVars, br_lines, br_dir0, br_dir, br_list,
                 br_k, br_i, br_side, br_isEven, br_error, br_log>>

\* one iteration of "for i, line in enumerate(csvreader)"
BrReadLine ==
  /\ br_pc = "read" /\ Len(br_data) < Len(br_lines)
  /\ LET line == br_lines[Len(br_data) + 1]
     IN  IF Len(line) < 5
         THEN /\ br_pc' = "raised"
              /\ br_error' = "short_row"
              /\ UNCHANGED br_data
         ELSE /\ br_data' = Append(br_data, br_row(line))
              /\ UNCHANGED <<br_pc, br_error>>
  /\ UNCHANGED <<cfVars, nmVars, cdVars, zdVars, br_lines, br_dir0, br_dir,
                 br_num_files, br_list, br_k, br_i, br_side, br_isEven, br_log>>

\* a count check that only asks for enough files
br_count_ok_atleast(num_files, row_count) == num_files >= row_count * 2

\* the test of the count check, negated
br_count_ok(num_files, row_count) == ~(num_files # row_count * 2)

\* the count check, then the set-up of the rename loop
BrCheck ==
  /\ br_pc = "read" /\ Len(br_data) = Len(br_lines)
  /\ IF ~br_count_ok(br_num_files, Len(br_data))
     THEN /\ br_pc' = "raised"
          /\ br_error' = "count"
          /\ UNCHANGED <<br_i, br_side, br_isEven, br_list, br_k>>
     ELSE /\ br_pc' = "rename"
          /\ br_i' = 0 /\ br_side' = Esq /\ br_isEven' = FALSE
          /\ br_list' = Sorted(br_glob(br_dir))
          /\ br_k' = 0
          /\ UNCHANGED br_error
  /\ UNCHANGED <<cfVars, nmVars, cdVars, zdVars, br_lines, br_dir0, br_dir,
                 br_num_files, br_data, br_log>>

\* a loop tail that moves to the next row after every file
br_advance_each(i, side, isEven) ==
  [i |-> i + 1, side |-> IF side = Esq THEN Dir ELSE Esq, isEven |-> ~isEven]

\* the tail of the loop body: side, i and isEven after one file
br_advance(i, side, isEven) ==
  IF ~isEven THEN [i |-> i, side |-> Dir, isEven |-> TRUE]
  ELSE [i |-> i + 1, side |-> Esq, isEven |-> FALSE]

\* one iteration of "for filename in sorted(glob.glob(...))"
BrRename ==
  /\ br_pc = "rename" /\ br_k < Len(br_list)
  /\ LET filename == br_list[br_k + 1]
         after == br_advance(br_i, br_side, br_isEven)
     IN  IF br_i >= Len(br_data)
         THEN \* data[i] raises IndexError
              /\ br_pc' = "raised" /\ br_error' = "index"
              /\ UNCHANGED <<br_dir, br_log, br_k, br_i, br_side, br_isEven>>
         ELSE IF filename \notin DOMAIN br_dir
         THEN \* os.rename raises FileNotFoundError
              /\ br_pc' = "raised" /\ br_error' = "rename"
              /\ UNCHANGED <<br_dir, br_log, br_k, br_i, br_side, br_isEven>>
         ELSE LET new_name == br_new_name(br_data[br_i + 1], br_side)
              IN  /\ br_dir' = OsRename(br_dir, filename, new_name)
                  /\ br_log' = Append(br_log, [src |-> filename, row |-> br_i,
                                               side |-> br_side, dst |-> new_name])
                  /\ br_k' = br_k + 1
                  /\ br_i' = after.i
                  /\ br_side' = after.side
                  /\ br_isEven' = after.isEven
                  /\ UNCHANGED <<br_pc, br_error>>
  /\ UNCHANGED <<cfVars, nmVars, cdVars, zdVars, br_lines, br_dir0, br_num_files,
                 br_data, br_list>>

\* the loop has consumed the list: the script ends
BrDone ==
  /\ br_pc = "rename" /\ br_k = Len(br_list)
  /\ br_pc' = "done"
  /\ UNCHANGED <<cfVars, nmVars, cdVars, zdVars, br_lines, br_dir0, br_dir,
                 br_num_files, br_data, br_list, br_k, br_i, br_side,
                 br_isEven, br_error, br_log>>

BrNext == BrCount \/ BrReadLine \/ BrCheck \/ BrRename \/ BrDone
RenameSpec == BrInit /\ [][BrNext]_vars

\* C5: a run that raised on a row of fewer than 5 fields, or with a number of
\* mp4 files other than twice the number of rows, has renamed no file.
C5_NoRenameBeforeFatal ==
  (/\ br_pc = "raised"
   /\ \/ br_error = "short_row"
      \/ br_num_files # 2 * Len(br_data))
    => (br_dir = br_dir0 /\ br_log = <<>>)

\* C5's case: the run raised on 2N+1 files for N >= 1 rows.
C5_Witness ==
  /\ br_pc = "raised" /\ br_error = "count"
  /\ Len(br_data) >= 1
  /\ br_num_files = 2 * Len(br_data) + 1

\* C6: past the count check, the k-th rename (0-based) took the k-th file of
\* the sorted list, row k div 2 and side esq for even k, dir for odd k; the
\* row index is the number of pairs consumed and stays below N while a file
\* remains.
C6_Pairing ==
  br_pc \in {"rename", "done"} =>
    /\ br_list = Sorted(br_glob(br_dir0))
    /\ \A j, k \in DOMAIN br_list : j < k => StrLess(br_list[j], br_list[k])
    /\ Len(br_list) = 2 * Len(br_data)
    /\ Len(br_log) = br_k
    /\ \A k \in 0..(Len(br_log) - 1) :
         /\ br_log[k + 1].src = br_list[k + 1]
         /\ br_log[k + 1].row = k \div 2
         /\ br_log[k + 1].side = (IF k % 2 = 0 THEN Esq ELSE Dir)
         /\ br_log[k + 1].dst
              = br_new_name(br_data[(k \div 2) + 1], br_log[k + 1].side)
    /\ br_i = br_k \div 2
    /\ (br_k < Len(br_list) => br_i <= Len(br_data) - 1)

\* C6's case: a run over two rows has renamed its four files.
C6_Witness ==
  /\ br_pc = "done"
  /\ Len(br_data) = 2
  /\ Len(br_log) = 4

\* C17: past the count check no os.rename targets a name an earlier rename
\* of the run produced or the name of a file still waiting in the sorted
\* list, and the run ends with 2N mp4 files for the N rows of the CSV.
C17_NoFileLost ==
  /\ \A k \in DOMAIN br_log :
       /\ \A j \in 1..(k - 1) : br_log[j].dst # br_log[k].dst
       /\ \A j \in (k + 1)..Len(br_list) : br_list[j] # br_log[k].dst
  /\ br_pc = "done" => Cardinality(br_glob(br_dir)) = 2 * Len(br_data)

-----------------------------------------------------------------------------
(* DownloadSpec: zoom_downloader.py, main run any number of times over one *)
(* OUTPUT_DIR                                                              *)

MaxZdRecs == 2
\* the most stream types one page load captures
MaxCaptured == 2

\* "st_size > 100000" of the three already-exists tests
MinExistingBytes == 100000
\* "size_mb > 0.5" of download_with_curl, in bytes: 0.5 * 1024 * 1024
MinDownloadBytes == 524288
\* what curl may leave at --output: -1 for nothing written, or a file of one
\* of these sizes
NotWritten == -1
CurlWrites == {NotWritten, MinExistingBytes, MinDownloadBytes, MinDownloadBytes + 1}
CurlExits == {0, 1}

ZdRow(title, link) ==
  <<<<"M">>, <<"1">>, DateFev, <<"p">>, <<"A">>, title, link>>
\* a row with a link and one without; a CSV may hold a row twice, and the
\* two recordings then share their file names
ZdRowSet == {ZdRow(<<"x">>, <<"u">>), ZdRow(<<"x">>, <<>>)}

\* load_recordings_from_csv
\* the elements of a set as a list
RECURSIVE Sorted0(_)
Sorted0(S) ==
  IF S = {} THEN <<>>
  ELSE LET x == CHOOSE y \in S : TRUE IN <<x>> \o Sorted0(S \ {x})

RECURSIVE zd_load_recordings_from_csv(_)
zd_load_recordings_from_csv(rows) ==
  IF rows = <<>> THEN <<>>
  ELSE (IF zd_accepts(Head(rows)) THEN <<zd_recording(Head(rows), 0)>> ELSE <<>>)
       \o zd_load_recordings_from_csv(Tail(rows))

StreamTypes == {"screen", "camera", "gallery"}
\* the side tag of a stream type
zd_side(stream_type) ==
  IF stream_type = "screen" THEN Esq
  ELSE IF stream_type = "camera" THEN Dir
  ELSE <<"g", "a", "l", "l", "e", "r", "y">>

\* build_filename over the recordings and sides of the model, evaluated once
ZdFileNames ==
  [recording \in Range(zd_load_recordings_from_csv(Sorted0(ZdRowSet))),
   side \in {zd_side(t) : t \in StreamTypes} |->
     zd_build_filename(recording, side)]
\* OUTPUT_DIR / build_filename(recording, side)
zd_output_path(recording, side) == ZdFileNames[recording, side]

\* output_path.exists() and output_path.stat().st_size > 100000
zd_exists_big(disk, path) == path \in DOMAIN disk /\ disk[path] > MinExistingBytes

WriteFile(disk, path, size) ==
  [n \in DOMAIN disk \cup {path} |-> IF n = path THEN size ELSE disk[n]]
Unlink(disk, path) == [n \in DOMAIN disk \ {path} |-> disk[n]]

\* download_with_curl: curl ends with code exit and has written a file of
\* `written` bytes at output_path (or nothing); an exception of
\* subprocess.run is the outcome (1, NotWritten)
zd_download_with_curl(disk, output_path, exit, written) ==
  IF zd_exists_big(disk, output_path) THEN [ret |-> TRUE, disk |-> disk]
  ELSE LET after == IF written = NotWritten THEN disk
                    ELSE WriteFile(disk, output_path, written)
       IN  IF exit # 0 THEN [ret |-> FALSE, disk |-> after]
           ELSE IF output_path \in DOMAIN after
           THEN IF after[output_path] > MinDownloadBytes
                THEN [ret |-> TRUE, disk |-> after]
                ELSE [ret |-> FALSE, disk |-> Unlink(after, output_path)]
           ELSE [ret |-> FALSE, disk |-> after]

\* the result dict process_recording starts from
zd_new_result(index) ==
  [index |-> index, status |-> "failed", streams_downloaded |-> <<>>,
   streams_failed |-> <<>>, error |-> None]

\* "Determine final status"
zd_final_status(result) ==
  IF Len(result.streams_downloaded) = 0 THEN "failed"
  ELSE IF Len(result.streams_failed) > 0 THEN "partial"
  ELSE "success"

ZdInit ==
  /\ zd_pc = "idle"
  /\ \E rows \in SeqsUpTo(ZdRowSet, MaxZdRecs) :
       zd_recordings = zd_load_recordings_from_csv(rows)
  /\ zd_disk = <<>> /\ zd_good = {}
  /\ zd_i = 0 /\ zd_successful = <<>> /\ zd_partial = <<>>
  /\ zd_failed = <<>> /\ zd_skipped = <<>> /\ zd_result = <<>>
  /\ zd_video_urls = {} /\ zd_order = <<>> /\ zd_call = <<>>
  /\ zd_accepted = {} /\ zd_reports = {}
  /\ NmIdle /\ CdIdle /\ BrIdle /\ CfIdle

\* main up to the loop: the CSV is loaded, the result lists are created
ZdStartRun ==
  /\ zd_pc \in {"idle", "ended"}
  /\ zd_successful' = <<>> /\ zd_partial' = <<>> /\ zd_failed' = <<>>
  /\ zd_skipped' = <<>>
  /\ zd_order' = <<>> /\ zd_call' = <<>> /\ zd_accepted' = {}
  /\ zd_result' = <<>> /\ zd_video_urls' = {}
  /\ IF zd_recordings = <<>>
     THEN zd_pc' = "ended" /\ zd_i' = 0   \* "No recordings to process"
     ELSE zd_pc' = "loop" /\ zd_i' = 1
  /\ zd_reports' = {}
  /\ UNCHANGED <<cfVars, nmVars, cdVars, brVars, zd_recordings, zd_disk, zd_good>>

\* what main reads of a filed result: the recording (by its index), the
\* status and the error
ZdEntry(result) ==
  [index |-> result.index, status |-> result.status, error |-> result.error]

\* main's "if result['status'] == ..." chain
zd_file_result(result, lists) ==
  IF result.status = "success"
    THEN [lists EXCEPT !.successful = Append(@, ZdEntry(result))]
  ELSE IF result.status = "partial"
    THEN [lists EXCEPT !.partial = Append(@, ZdEntry(result))]
  ELSE IF result.status = "skipped"
    THEN [lists EXCEPT !.skipped = Append(@, ZdEntry(result))]
  ELSE [lists EXCEPT !.failed = Append(@, ZdEntry(result))]

ZdLists == [successful |-> zd_successful, partial |-> zd_partial,
            failed |-> zd_failed, skipped |-> zd_skipped]

\* process_recording returns result to main, which files it and goes on
ZdReturn(result) ==
  LET lists == zd_file_result(result, ZdLists)
  IN  /\ zd_successful' = lists.successful
      /\ zd_partial' = lists.partial
      /\ zd_failed' = lists.failed
      /\ zd_skipped' = lists.skipped
      /\ zd_i' = zd_i + 1
      /\ zd_pc' = "loop"
      /\ zd_result' = <<>>
      /\ zd_video_urls' = {}

\* a skip test that asks for the size download_with_curl asks of a download
zd_both_exist_strict(disk, screen_path, camera_path) ==
  /\ screen_path \in DOMAIN disk /\ camera_path \in DOMAIN disk
  /\ disk[screen_path] > MinDownloadBytes
  /\ disk[camera_path] > MinDownloadBytes

\* process_recording's test "screen_path.exists() and camera_path.exists()"
\* with both st_size > 100000
zd_both_exist(disk, screen_path, camera_path) ==
  /\ screen_path \in DOMAIN disk /\ camera_path \in DOMAIN disk
  /\ disk[screen_path] > MinExistingBytes
  /\ disk[camera_path] > MinExistingBytes

\* process_recording: both files exist above the size: skipped
ZdSkipRecording ==
  /\ zd_pc = "loop" /\ zd_i <= Len(zd_recordings)
  /\ LET recording == zd_recordings[zd_i]
         screen_path == zd_output_path(recording, Esq)
         camera_path == zd_output_path(recording, Dir)
     IN  /\ zd_both_exist(zd_disk, screen_path, camera_path)
         /\ ZdReturn([zd_new_result(zd_i) EXCEPT
                        !.status = "skipped",
                        !.streams_downloaded = <<"screen", "camera">>])
         /\ zd_accepted' = {[file |-> f, good |-> f \in zd_good] :
                              f \in {screen_path, camera_path}}
  /\ zd_order' = Append(zd_order, zd_i)
  /\ zd_call' = <<>>
  /\ UNCHANGED <<cfVars, nmVars, cdVars, brVars, zd_recordings, zd_disk, zd_good,
                 zd_reports>>

\* process_recording: otherwise a page is opened
ZdOpenPage ==
  /\ zd_pc = "loop" /\ zd_i <= Len(zd_recordings)
  /\ LET recording == zd_recordings[zd_i]
         screen_path == zd_output_path(recording, Esq)
         camera_path == zd_output_path(recording, Dir)
     IN  ~zd_both_exist(zd_disk, screen_path, camera_path)
  /\ zd_pc' = "page"
  /\ zd_result' = zd_new_result(zd_i)
  /\ zd_video_urls' = {}
  /\ zd_order' = Append(zd_order, zd_i)
  /\ zd_call' = <<>> /\ zd_accepted' = {}
  /\ UNCHANGED <<cfVars, nmVars, cdVars, brVars, zd_recordings, zd_disk, zd_good,
                 zd_i, zd_successful, zd_partial, zd_failed,
                 zd_skipped, zd_reports>>

\* page.goto raises, a password input is found, or no URL was captured:
\* process_recording returns its result with the error set
ZdPageFails ==
  /\ zd_pc = "page"
  /\ \E error \in {"load", "Password required", "No video URLs found"} :
       ZdReturn([zd_result EXCEPT !.error = error])
  /\ zd_call' = <<>> /\ zd_accepted' = {}
  /\ UNCHANGED <<cfVars, nmVars, cdVars, brVars, zd_recordings, zd_disk, zd_good,
                 zd_order, zd_reports>>

\* an except branch that gives the run up
zd_after_exception_stop(i, total) == total + 1

\* the index main goes on with after its except branch
zd_after_exception(i, total) == i + 1

\* a call of process_recording raises (new_page, query_selector, evaluate,
\* cookies, close): main's except branch files the recording as failed
ZdException ==
  /\ zd_pc \in {"page", "streams"}
  /\ zd_failed' = Append(zd_failed,
                         [index |-> zd_i, status |-> None, error |-> "exception"])
  /\ zd_i' = zd_after_exception(zd_i, Len(zd_recordings))
  /\ zd_pc' = "loop"
  /\ zd_result' = <<>> /\ zd_video_urls' = {}
  /\ zd_call' = <<>> /\ zd_accepted' = {}
  /\ UNCHANGED <<cfVars, nmVars, cdVars, brVars, zd_recordings, zd_disk, zd_good,
                 zd_successful, zd_partial, zd_skipped, zd_order,
                 zd_reports>>

\* on_request has captured the URLs of some stream types
ZdCaptured ==
  /\ zd_pc = "page"
  /\ \E captured \in SUBSET StreamTypes :
       /\ captured # {} /\ Cardinality(captured) <= MaxCaptured
       /\ zd_video_urls' = captured
  /\ zd_pc' = "streams"
  /\ zd_call' = <<>> /\ zd_accepted' = {}
  /\ UNCHANGED <<cfVars, nmVars, cdVars, brVars, zd_recordings, zd_disk, zd_good,
                 zd_i, zd_successful, zd_partial, zd_failed,
                 zd_skipped, zd_result, zd_order, zd_reports>>

\* one iteration of "for stream_type, video_url in video_urls.items()":
\* the file is there above the size
ZdStreamSkip ==
  /\ zd_pc = "streams"
  /\ \E stream_type \in zd_video_urls :
       LET output_path == zd_output_path(zd_recordings[zd_i], zd_side(stream_type))
       IN  /\ zd_exists_big(zd_disk, output_path)
           /\ zd_result' = [zd_result EXCEPT
                              !.streams_downloaded = Append(@, stream_type)]
           /\ zd_video_urls' = zd_video_urls \ {stream_type}
           /\ zd_accepted' = {[file |-> output_path, good |-> output_path \in zd_good]}
  /\ zd_call' = <<>>
  /\ UNCHANGED <<cfVars, nmVars, cdVars, brVars, zd_pc, zd_recordings, zd_disk,
                 zd_good, zd_i, zd_successful, zd_partial, zd_failed,
                 zd_skipped, zd_order, zd_reports>>

\* one iteration of the stream loop: download_with_curl is called
ZdStreamDownload ==
  /\ zd_pc = "streams"
  /\ \E stream_type \in zd_video_urls, exit \in CurlExits, written \in CurlWrites :
       LET output_path == zd_output_path(zd_recordings[zd_i], zd_side(stream_type))
           call == zd_download_with_curl(zd_disk, output_path, exit, written)
       IN  /\ ~zd_exists_big(zd_disk, output_path)
           /\ zd_disk' = call.disk
           /\ zd_good' = IF call.ret THEN zd_good \cup {output_path}
                         ELSE zd_good \ {output_path}
           /\ zd_result' = IF call.ret
                           THEN [zd_result EXCEPT
                                   !.streams_downloaded = Append(@, stream_type)]
                           ELSE [zd_result EXCEPT
                                   !.streams_failed = Append(@, stream_type)]
           /\ zd_video_urls' = zd_video_urls \ {stream_type}
           /\ zd_call' = [path |-> output_path, ret |-> call.ret]
  /\ zd_accepted' = {}
  /\ UNCHANGED <<cfVars, nmVars, cdVars, brVars, zd_pc, zd_recordings, zd_i,
                 zd_successful, zd_partial, zd_failed, zd_skipped, zd_order,
                 zd_reports>>

\* the stream loop has ended: final status, return
ZdFinish ==
  /\ zd_pc = "streams" /\ zd_video_urls = {}
  /\ ZdReturn([zd_result EXCEPT !.status = zd_final_status(zd_result)])
  /\ zd_call' = <<>> /\ zd_accepted' = {}
  /\ UNCHANGED <<cfVars, nmVars, cdVars, brVars, zd_recordings, zd_disk, zd_good,
                 zd_order, zd_reports>>

\* main after the loop: the summary and the two saved tables
ZdEndRun ==
  /\ zd_pc = "loop" /\ zd_i > Len(zd_recordings)
  /\ zd_pc' = "ended"
  /\ zd_reports' =
       (IF zd_failed # <<>> THEN {"failed_downloads.csv"} ELSE {})
       \cup (IF zd_partial # <<>> THEN {"partial_downloads.csv"} ELSE {})
  /\ zd_call' = <<>> /\ zd_accepted' = {}
  /\ UNCHANGED <<cfVars, nmVars, cdVars, brVars, zd_recordings, zd_disk, zd_good,
                 zd_i, zd_successful, zd_partial, zd_failed,
                 zd_skipped, zd_result, zd_video_urls, zd_order>>

ZdNext ==
  \/ ZdStartRun \/ ZdSkipRecording \/ ZdOpenPage \/ ZdPageFails
  \/ ZdException \/ ZdCaptured \/ ZdStreamSkip \/ ZdStreamDownload
  \/ ZdFinish \/ ZdEndRun
DownloadSpec == ZdInit /\ [][ZdNext]_vars

\* C7: a file accepted as already downloaded (stream skipped or session
\* skipped) was written by a download that reported success, never left by
\* one that was counted as failed.
C7_AcceptedWereDownloaded == \A a \in zd_accepted : a.good

\* C8: download_with_curl returns True exactly when, on return, the output
\* file exists above the size threshold, for one threshold (either of the
\* two sizes the function compares with).
C8_SuccessIffFileBig ==
  DOMAIN zd_call # {} =>
    \E threshold \in {MinExistingBytes, MinDownloadBytes} :
      zd_call.ret <=> (/\ zd_call.path \in DOMAIN zd_disk
                       /\ zd_disk[zd_call.path] > threshold)

\* C9: a recording filed under status 'success' has both its esq and its dir
\* file on disk above the size threshold.
C9_SuccessHasBothFiles ==
  \A k \in DOMAIN zd_successful :
    LET recording == zd_recordings[zd_successful[k].index]
    IN  /\ zd_exists_big(zd_disk, zd_output_path(recording, Esq))
        /\ zd_exists_big(zd_disk, zd_output_path(recording, Dir))

\* the four result lists of main, one after the other
ZdAll == zd_successful \o zd_partial \o zd_failed \o zd_skipped
\* the number of recordings main has filed
ZdFiled ==
  IF zd_pc = "ended" THEN Len(zd_recordings)
  ELSE IF zd_pc \in {"loop", "page", "streams"} THEN zd_i - 1
  ELSE 0
Increasing(list) ==
  \A j, k \in DOMAIN list : j < k => list[j].index < list[k].index

\* C10: in a run of main the recordings are handed to process_recording once
\* each, in input order; each one handled is in exactly one of successful /
\* partial / failed / skipped, the one its status names, whatever failed
\* before it; when the run ends the four lengths sum to the number of
\* recordings.
C10_EveryRecordingFiled ==
  zd_pc # "idle" =>
    /\ Len(zd_successful) + Len(zd_partial) + Len(zd_failed) + Len(zd_skipped)
         = ZdFiled
    /\ \A j \in 1..ZdFiled :
         Cardinality({k \in DOMAIN ZdAll : ZdAll[k].index = j}) = 1
    /\ zd_order = [k \in 1..(IF zd_pc \in {"page", "streams"}
                             THEN zd_i ELSE ZdFiled) |-> k]
    /\ \A k \in DOMAIN zd_successful : zd_successful[k].status = "success"
    /\ \A k \in DOMAIN zd_partial : zd_partial[k].status = "partial"
    /\ \A k \in DOMAIN zd_skipped : zd_skipped[k].status = "skipped"
    /\ \A k \in DOMAIN zd_failed :
         /\ zd_failed[k].status \in {"failed", None}
         /\ zd_failed[k].error # None \/ zd_failed[k].status = "failed"
    /\ Increasing(zd_successful) /\ Increasing(zd_partial)
    /\ Increasing(zd_failed) /\ Increasing(zd_skipped)

\* C10's case: a run has ended in which the first recording raised and the
\* second was downloaded.
C10_Witness ==
  /\ zd_pc = "ended"
  /\ Len(zd_recordings) = 2
  /\ \E k \in DOMAIN zd_failed :
       zd_failed[k].index = 1 /\ zd_failed[k].error = "exception"
  /\ \E k \in DOMAIN zd_successful : zd_successful[k].index = 2

\* C11: when the esq and the dir file of the recording process_recording is
\* called with both exist above the minimum size, the call returns status
\* 'skipped' (main files it under skipped), no page is opened,
\* download_with_curl is not called and the files of the output directory
\* stay as they are.
C11_SkipTouchesNothing ==
  [][(/\ zd_pc = "loop" /\ zd_i <= Len(zd_recordings)
      /\ zd_exists_big(zd_disk, zd_output_path(zd_recordings[zd_i], Esq))
      /\ zd_exists_big(zd_disk, zd_output_path(zd_recordings[zd_i], Dir)))
     => (/\ zd_pc' = "loop" /\ zd_i' = zd_i + 1
         /\ zd_skipped' = Append(zd_skipped, [index |-> zd_i,
                                              status |-> "skipped",
                                              error |-> None])
         /\ zd_call' = <<>>
         /\ zd_disk' = zd_disk)]_vars

\* C11's case: a recording has just been skipped because both its files were
\* on disk
C11_Witness ==
  /\ zd_pc = "loop"
  /\ zd_skipped # <<>>
  /\ Cardinality(zd_accepted) = 2

\* ---------------------------------------------------------------------
\* load_csv_entries of check_downloads.py on rows of any shape
\* ---------------------------------------------------------------------

\* the most data rows of the CSV file
MaxLdRows == 3
\* the header of the CSV file: its seven column names
HeaderLen == 7

\* data lines: one with a link, one without, one with six fields, one with
\* eight, and a blank line
LdRowSet == {CdRow(<<"x">>, <<"u">>), CdRow(<<"x">>, <<>>),
             Take(CdRow(<<"x">>, <<"u">>), HeaderLen - 1),
             CdRow(<<"x">>, <<"u">>) \o <<<<"e">>>>,
             <<>>}

\* csv.DictReader.__next__ and the dict comprehension over row.items():
\* a blank line is passed over; a short row has None (restval) under the
\* missing names, and v.strip() raises; a long row has its extra fields under
\* the key None (restkey), and k.lower() raises
cd_row_shape(row) ==
  IF row = <<>> THEN "blank"
  ELSE IF Len(row) < HeaderLen THEN "short"
  ELSE IF Len(row) > HeaderLen THEN "long"
  ELSE "full"

\* "normalized = {k.lower().strip(): v.strip() ...}" raises AttributeError
cd_row_raises(row) == cd_row_shape(row) \in {"short", "long"}

LdInit ==
  /\ cd_pc = "ld_open"
  /\ cd_rows \in SeqsUpTo(LdRowSet, MaxLdRows)
  /\ cd_year \in Years
  /\ cd_i = 1
  /\ cd_dir = {} /\ cd_entries = <<>> /\ cd_todo = {} /\ cd_files_by_base = <<>>
  /\ cd_base_order = <<>> /\ cd_complete = <<>>
  /\ cd_missing_pair = <<>> /\ cd_missing_all = <<>>
  /\ cd_expected_bases = {} /\ cd_orphan_files = <<>>
  /\ cd_reports = <<>>
  /\ NmIdle /\ BrIdle /\ ZdIdle /\ CfIdle

\* one iteration of "for row in reader"
LdRow ==
  /\ cd_pc = "ld_open" /\ cd_i <= Len(cd_rows)
  /\ LET row == cd_rows[cd_i]
     IN  IF cd_row_raises(row)
         THEN cd_pc' = "AttributeError" /\ UNCHANGED <<cd_i, cd_entries>>
         ELSE /\ cd_pc' = cd_pc
              /\ cd_i' = cd_i + 1
              /\ cd_entries' =
                   IF cd_row_shape(row) = "full" /\ cd_accepts(row)
                   THEN Append(cd_entries, cd_entry(row, cd_year))
                   ELSE cd_entries
  /\ UNCHANGED <<cfVars, nmVars, brVars, zdVars, cd_rows, cd_year, cd_dir, cd_reports, cd_todo,
                 cd_files_by_base, cd_base_order, cd_complete,
                 cd_missing_pair, cd_missing_all, cd_expected_bases,
                 cd_orphan_files>>

\* "return entries"
LdReturn ==
  /\ cd_pc = "ld_open" /\ cd_i > Len(cd_rows)
  /\ cd_pc' = "ld_returned"
  /\ UNCHANGED <<cfVars, nmVars, brVars, zdVars, cd_rows, cd_year, cd_dir, cd_reports, cd_entries,
                 cd_todo, cd_files_by_base, cd_base_order, cd_i, cd_complete,
                 cd_missing_pair, cd_missing_all, cd_expected_bases,
                 cd_orphan_files>>

LdNext == LdRow \/ LdReturn
LoadSpec == LdInit /\ [][LdNext]_vars

\* the rows with a link among the first n of rows, as entries, in order
RECURSIVE LdLinked(_, _, _)
LdLinked(rows, n, year) ==
  IF n = 0 THEN <<>>
  ELSE LdLinked(rows, n - 1, year)
       \o (IF Len(rows[n]) >= HeaderLen /\ Strip(rows[n][HeaderLen]) # <<>>
           THEN <<cd_entry(rows[n], year)>> ELSE <<>>)

\* C12: load_csv_entries never raises on the shape of a row; it comes to
\* its return for any sequence of data rows, rows with fewer fields than the
\* header among them, and returns the rows with a non-empty link field, in
\* input order.
C12_LoaderNeverRaises ==
  /\ cd_pc # "AttributeError"
  /\ cd_pc = "ld_returned" =>
       cd_entries = LdLinked(cd_rows, Len(cd_rows), cd_year)

\* ---------------------------------------------------------------------
\* check_downloads.py run again and again over one output directory
\* ---------------------------------------------------------------------

\* the most data rows of the CSV file of a run
MaxRcRows == 1
\* the most mp4 files of OUTPUT_DIR at the start of a run
MaxRcFiles == 2

RcRowSet == {CdRow(<<"x">>, <<"u">>)}
RcFileSet(year) ==
  {CdBase(<<"x">>, year) \o Sep \o Esq \o Mp4,
   CdBase(<<"x">>, year) \o Sep \o Dir \o Mp4,
   <<"z">> \o Sep \o Esq \o Mp4}
RcDirs(year) == {d \in SUBSET RcFileSet(year) : Cardinality(d) <= MaxRcFiles}

\* the first run starts on a directory without report tables
RcInit ==
  /\ cd_pc = "load"
  /\ cd_rows \in SeqsUpTo(RcRowSet, MaxRcRows)
  /\ cd_year \in Years
  /\ cd_dir \in RcDirs(cd_year)
  /\ cd_entries = <<>> /\ cd_todo = {} /\ cd_files_by_base = <<>>
  /\ cd_base_order = <<>> /\ cd_i = 0 /\ cd_complete = <<>>
  /\ cd_missing_pair = <<>> /\ cd_missing_all = <<>>
  /\ cd_expected_bases = {} /\ cd_orphan_files = <<>>
  /\ cd_reports = <<>>
  /\ NmIdle /\ BrIdle /\ ZdIdle /\ CfIdle

\* the script is started again: the CSV file and the mp4 files may have
\* changed in between, the report tables are the ones the runs have left
CdRerun ==
  /\ cd_pc = "done"
  /\ cd_pc' = "load"
  /\ cd_rows' \in SeqsUpTo(RcRowSet, MaxRcRows)
  /\ cd_dir' \in RcDirs(cd_year)
  /\ cd_entries' = <<>> /\ cd_todo' = {} /\ cd_files_by_base' = <<>>
  /\ cd_base_order' = <<>> /\ cd_i' = 0 /\ cd_complete' = <<>>
  /\ cd_missing_pair' = <<>> /\ cd_missing_all' = <<>>
  /\ cd_expected_bases' = {} /\ cd_orphan_files' = <<>>
  /\ UNCHANGED <<cfVars, nmVars, brVars, zdVars, cd_year, cd_reports>>

RcNext == CdNext \/ CdRerun
RecheckSpec == RcInit /\ [][RcNext]_vars

\* C13 as stated: a run of check_downloads leaves the output directory as
\* it found it, no file created, deleted or overwritten.
C13_ReadOnly ==
  [][cd_pc # "done" => (cd_dir' = cd_dir /\ cd_reports' = cd_reports)]_vars

\* C13, amended: a run of check_downloads creates or overwrites nothing but
\* its three report tables, and those only in its saving step; it deletes no
\* file, and the mp4 files are those it found.
C13_OnlyReportsWritten ==
  [][cd_pc # "done" =>
       /\ cd_dir' = cd_dir
       /\ DOMAIN cd_reports \subseteq DOMAIN cd_reports'
       /\ \A n \in DOMAIN cd_reports' :
            (n \notin DOMAIN cd_reports \/ cd_reports'[n] # cd_reports[n])
              => (n \in ReportNames /\ cd_pc = "report")]_vars

\* C13's case: a later run has ended on a directory that holds a report
\* table while this run had nothing to put in it
C13_Witness ==
  /\ cd_pc = "done"
  /\ MissingCsv \in DOMAIN cd_reports
  /\ cd_missing_all = <<>>

\* the rows the run that has just ended computed for a report table
RcRowsOf(n) ==
  IF n = MissingCsv THEN cd_missing_rows(cd_missing_all)
  ELSE IF n = PairCsv THEN cd_pair_rows(cd_missing_pair)
  ELSE cd_orphan_rows(cd_orphan_files)

\* C15: after a run, every report table of the output directory lists the
\* set that run computed; none holds the rows of an earlier run.
C15_ReportsAreCurrent ==
  cd_pc = "done" => \A n \in DOMAIN cd_reports : cd_reports[n] = RcRowsOf(n)

\* ---------------------------------------------------------------------
\* FilesSpec: check_files.py
\* ---------------------------------------------------------------------

\* the most data lines of the CSV file
MaxCfRows == 2
\* the most files of the input directory
MaxCfFiles == 2
\* the number of fields the CSV loop reads of a line (line[0] .. line[4])
CfFields == 5

\* unidecode: ASCII stays, an accented letter becomes its base letter
Unidecode(s) ==
  [k \in DOMAIN s |-> IF s[k] = "ã" THEN "a" ELSE IF s[k] = "ç" THEN "c" ELSE s[k]]

\* the RowData of a CSV line of at least 5 fields
cf_row(line) ==
  LET tempDate == DateparserParse(line[1], 0)
      frente == Unidecode(line[4])
  IN  [date |-> IF ~tempDate.ok THEN line[1]
                ELSE Unidecode(Fmt2(tempDate.m) \o <<"-">> \o Fmt2(tempDate.d)),
       disciplina |-> Unidecode(line[3]),
       frente |-> IF frente = <<>> THEN <<"e", "m", "p", "t", "y">> ELSE frente,
       conteudo |-> Unidecode(StrReplace(StrReplace(line[5], <<"/">>, <<"-">>),
                                         <<":">>, <<" ", "-">>))]

\* re.search(r"\-(.*?)\-", filename): the leftmost "-", up to the next one
cf_search(filename) ==
  LET dashes == {k \in DOMAIN filename : filename[k] = "-"}
  IN  IF Cardinality(dashes) < 2 THEN [ok |-> FALSE, group0 |-> <<>>]
      ELSE LET first == SetMin(dashes)
           IN  [ok |-> TRUE,
                group0 |-> SubSeq(filename, first, SetMin(dashes \ {first}))]

\* matchItem of a matched file name
cf_matchItem(group0) ==
  LET item == StrStrip(group0, {" ", "-"})
  IN  IF item = <<>> THEN <<"e", "m", "p", "t", "y">> ELSE item

\* the path of <dir>_copy, and of a file in it
CopyPath == <<"w", "_", "c", "o", "p", "y">>
cf_path(name) == CopyPath \o <<"/">> \o name

CfLine(frente) == <<DateFev, <<"1">>, <<"M">>, frente, <<"x">>>>
\* a line of frente A, one of frente Ação, one with no frente, one of four
\* fields
CfLineSet == {CfLine(<<"A">>), CfLine(<<"A", "ç", "ã", "o">>), CfLine(<<>>),
              <<DateFev, <<"1">>, <<"M">>, <<"A">>>>}
\* files of frente A and B, one with an empty segment, one without a segment
CfFileSet == {<<"M", " ", "-", " ", "A", " ", "-", " ", "e">>,
              <<"M", " ", "-", " ", "B", " ", "-", " ", "d">>,
              <<"M", " ", "-", "-", " ", "e">>,
              <<"n">>}

CfInit ==
  /\ cf_pc = "start"
  /\ cf_lines \in SeqsUpTo(CfLineSet, MaxCfRows)
  /\ cf_dir \in {d \in SUBSET CfFileSet : Cardinality(d) <= MaxCfFiles}
  /\ cf_dir0 = cf_dir
  /\ cf_copy_exists = FALSE /\ cf_copy = {} /\ cf_k = 0
  /\ cf_parsedDataset = <<>> /\ cf_todo = {} /\ cf_error = "none"
  /\ NmIdle /\ CdIdle /\ BrIdle /\ ZdIdle

\* lines 44-67: the precondition, mkdir and cp of the copy, the CSV opened
CfStart ==
  /\ cf_pc = "start"
  /\ IF cf_copy_exists
     THEN /\ cf_pc' = "raised" /\ cf_error' = "Directory already exists"
          /\ UNCHANGED <<cf_copy_exists, cf_copy, cf_k, cf_parsedDataset>>
     ELSE /\ cf_copy_exists' = TRUE
          /\ cf_copy' = {<<<<>>, name>> : name \in cf_dir}
          /\ cf_k' = 1 /\ cf_parsedDataset' = <<>>
          /\ cf_pc' = "reading"
          /\ cf_error' = "none"
  /\ cf_todo' = {}
  /\ UNCHANGED <<nmVars, cdVars, brVars, zdVars, cf_lines, cf_dir0, cf_dir>>

\* one iteration of "for i, line in enumerate(csvreader)": a line of fewer
\* than five fields raises IndexError
CfReadLine ==
  /\ cf_pc = "reading" /\ cf_k <= Len(cf_lines)
  /\ LET line == cf_lines[cf_k]
     IN  IF Len(line) < CfFields
         THEN /\ cf_pc' = "raised" /\ cf_error' = "IndexError"
              /\ UNCHANGED <<cf_k, cf_parsedDataset>>
         ELSE /\ cf_parsedDataset' =
                   DictAppend(cf_parsedDataset, <<>>, cf_row(line).frente,
                              cf_row(line))
              /\ cf_k' = cf_k + 1
              /\ UNCHANGED <<cf_pc, cf_error>>
  /\ UNCHANGED <<nmVars, cdVars, brVars, zdVars, cf_lines, cf_dir0, cf_dir,
                 cf_copy_exists, cf_copy, cf_todo>>

\* the CSV loop ends; glob.glob(f"{workingDirectory}/[!.]*") is evaluated
CfReadDone ==
  /\ cf_pc = "reading" /\ cf_k > Len(cf_lines)
  /\ cf_pc' = "bucket"
  /\ cf_todo' = {f[2] : f \in {g \in cf_copy : g[1] = <<>> /\ g[2][1] # "."}}
  /\ UNCHANGED <<nmVars, cdVars, brVars, zdVars, cf_lines, cf_dir0, cf_dir,
                 cf_copy_exists, cf_copy, cf_k, cf_parsedDataset, cf_error>>

\* one iteration of the glob loop: the file is moved to the sub-directory its
\* "-...-" segment names; match.group raises AttributeError when re.search
\* found none
CfBucket ==
  /\ cf_pc = "bucket"
  /\ \E name \in cf_todo :
       LET match == cf_search(cf_path(name))
       IN  IF ~match.ok
           THEN /\ cf_pc' = "raised" /\ cf_error' = "AttributeError"
                /\ UNCHANGED <<cf_copy, cf_todo>>
           ELSE /\ cf_copy' = (cf_copy \ {<<<<>>, name>>})
                                \cup {<<cf_matchItem(match.group0), name>>}
                /\ cf_todo' = cf_todo \ {name}
                /\ UNCHANGED <<cf_pc, cf_error>>
  /\ UNCHANGED <<nmVars, cdVars, brVars, zdVars, cf_lines, cf_dir0, cf_dir,
                 cf_copy_exists, cf_k, cf_parsedDataset>>

CfBucketDone ==
  /\ cf_pc = "bucket" /\ cf_todo = {}
  /\ cf_pc' = "check"
  /\ UNCHANGED <<nmVars, cdVars, brVars, zdVars, cf_lines, cf_dir0, cf_dir,
                 cf_copy_exists, cf_copy, cf_k, cf_parsedDataset, cf_todo,
                 cf_error>>

\* lines 113-143: the names of every key are compared and the differences
\* printed (i stays below keyLength: nothing raises), then rm -rf of the copy
CfCheckAndRemove ==
  /\ cf_pc = "check"
  /\ cf_copy_exists' = FALSE /\ cf_copy' = {}
  /\ cf_pc' = "done"
  /\ UNCHANGED <<nmVars, cdVars, brVars, zdVars, cf_lines, cf_dir0, cf_dir,
                 cf_k, cf_parsedDataset, cf_todo, cf_error>>

\* the script is started again with the same arguments
CfRerun ==
  /\ cf_pc \in {"done", "raised"}
  /\ cf_pc' = "start"
  /\ cf_k' = 0 /\ cf_parsedDataset' = <<>> /\ cf_todo' = {}
  /\ cf_error' = "none"
  /\ UNCHANGED <<nmVars, cdVars, brVars, zdVars, cf_lines, cf_dir0, cf_dir,
                 cf_copy_exists, cf_copy>>

CfNext ==
  \/ CfStart \/ CfReadLine \/ CfReadDone \/ CfBucket \/ CfBucketDone
  \/ CfCheckAndRemove \/ CfRerun
FilesSpec == CfInit /\ [][CfNext]_vars

\* C14: a run of check_files that got past the precondition and made the
\* copy ends, however it ends, with the copy deleted, so that no following
\* run stops on the precondition; the input directory stays as it was.
C14_CopyAlwaysRemoved ==
  /\ (cf_pc \in {"done", "raised"} /\ cf_error # "Directory already exists")
       => ~cf_copy_exists
  /\ cf_error # "Directory already exists"
  /\ cf_dir = cf_dir0

=============================================================================
